---- MODULE Spec2Model ----
(***************************************************************************)
(* rustdoc_seeker: the rustdoc item graph resolver (src/src/parser.rs) and *)
(* the index builder / automaton search (src/src/seeker.rs).               *)
(*                                                                         *)
(* Strings (Atom, &str, &[u8]) are sequences of byte values.  A u64/usize  *)
(* is a tuple of four 16-bit limbs, least significant first, so that the   *)
(* 32-bit shift and mask of the index encoding keep their real width.      *)
(***************************************************************************)
EXTENDS Integers, Sequences, FiniteSets, TLC

VARIABLES
    pc,          \* position of the run
    doc,         \* the deserialised rustdoc document handed to from_str
    order,       \* iteration order of the FxHashMap `nodes`
    nodes,       \* id -> ItemNode (item, name, kind, parent, imported_by)
    pos,         \* how many nodes the running pass has visited
    path_cache,  \* generate_path's memo table
    items,       \* the BTreeSet<DocItem>, as its sorted sequence
    emitted,     \* every DocItem handed to items.extend, in emission order
    result,      \* what from_str returned
    index,       \* the fst map of RustDocSeeker: <<key, value>> in key order
    aut,         \* the automaton of a search: the set of keys it accepts
    found,       \* the entries a search yielded
    plen,        \* items.len() of a build
    pgroup,      \* one group's (start, end) offsets
    packed,      \* the group's packed u64
    decoded,     \* what search decodes from it
    other,       \* a second catalogue, to be merged into items
    before       \* items as they were before the last merge

vars == <<pc, doc, order, nodes, pos, path_cache, items, emitted, result,
          index, aut, found, plen, pgroup, packed, decoded, other, before>>

parseVars == <<doc, order, nodes, pos, path_cache, emitted, result>>
indexVars == <<index, aut, found>>
packVars == <<plen, pgroup, packed, decoded>>
mergeVars == <<other, before>>

(***************************************************************************)
(* Byte strings                                                            *)
(***************************************************************************)
Colon == 58

Min(S) == CHOOSE x \in S : \A y \in S : x <= y

\* <[u8] as Ord>::cmp / <str as Ord>::cmp: lexicographic on bytes
LexCmp(a, b) ==
    LET n == IF Len(a) < Len(b) THEN Len(a) ELSE Len(b)
        diffs == {i \in 1..n : a[i] # b[i]}
    IN  IF diffs = {}
        THEN IF Len(a) < Len(b) THEN "Less"
             ELSE IF Len(a) > Len(b) THEN "Greater" ELSE "Equal"
        ELSE IF a[Min(diffs)] < b[Min(diffs)] THEN "Less" ELSE "Greater"

\* Ordering::then_with
ThenWith(o, next) == IF o = "Equal" THEN next ELSE o

None == [some |-> FALSE, val |-> <<>>]
Some(a) == [some |-> TRUE, val |-> a]

\* <Option<&Atom> as Ord>::cmp: None < Some, Some by string
OptCmp(a, b) ==
    IF ~a.some /\ ~b.some THEN "Equal"
    ELSE IF ~a.some THEN "Less"
    ELSE IF ~b.some THEN "Greater"
    ELSE LexCmp(a.val, b.val)

(***************************************************************************)
(* TypeItem, LinkType, DocItem                                             *)
(***************************************************************************)
NoType == [kind |-> "", name |-> <<>>]
TypeItemOf(kind, name) == [kind |-> kind, name |-> name]

LinkIndex == [tag |-> "Index", page_item |-> NoType, parent |-> NoType]
LinkPage == [tag |-> "Page", page_item |-> NoType, parent |-> NoType]
LinkAssociateItem(page) ==
    [tag |-> "AssociateItem", page_item |-> page, parent |-> NoType]
LinkSubAssociateItem(page, par) ==
    [tag |-> "SubAssociateItem", page_item |-> page, parent |-> par]

DocItem(name, link, path, desc) ==
    [name |-> name, link_type |-> link, path |-> path, desc |-> desc]

parent_atom(e) ==
    IF e.link_type.tag \in {"Index", "Page"} THEN None
    ELSE Some(e.link_type.page_item.name)

index_key(e) == e.name.name

\* impl PartialEq for DocItem
DocItemEq(a, b) ==
    a.name = b.name /\ a.link_type = b.link_type /\ a.path = b.path

\* impl Ord for DocItem
DocItemCmp(a, b) ==
    ThenWith(LexCmp(index_key(a), index_key(b)),
        ThenWith(LexCmp(a.path, b.path),
                 OptCmp(parent_atom(a), parent_atom(b))))

(***************************************************************************)
(* BTreeSet<DocItem>, held as its sorted sequence                          *)
(***************************************************************************)
\* BTreeSet::insert: an element comparing Equal to one already held is
\* dropped and the held one stays
BTreeInsert(s, e) ==
    IF \E i \in 1..Len(s) : DocItemCmp(s[i], e) = "Equal" THEN s
    ELSE LET k == Cardinality({i \in 1..Len(s) : DocItemCmp(s[i], e) = "Less"})
         IN  SubSeq(s, 1, k) \o <<e>> \o SubSeq(s, k + 1, Len(s))

RECURSIVE BTreeExtend(_, _)
\* BTreeSet::extend: insert one by one, in iteration order
BTreeExtend(s, es) ==
    IF es = <<>> THEN s
    ELSE BTreeExtend(BTreeInsert(s, Head(es)), Tail(es))

(***************************************************************************)
(* u64 arithmetic on 16-bit limbs                                          *)
(***************************************************************************)
LimbBase == 2 ^ 16

U64(n) == <<n % LimbBase, (n \div LimbBase) % LimbBase, 0, 0>>
U64Zero == <<0, 0, 0, 0>>
U32Max == <<LimbBase - 1, LimbBase - 1, 0, 0>>

\* a + b mod 2^64
AddU64(a, b) ==
    LET s1 == a[1] + b[1]
        s2 == a[2] + b[2] + (s1 \div LimbBase)
        s3 == a[3] + b[3] + (s2 \div LimbBase)
        s4 == a[4] + b[4] + (s3 \div LimbBase)
    IN  <<s1 % LimbBase, s2 % LimbBase, s3 % LimbBase, s4 % LimbBase>>

LessU64(a, b) ==
    \E i \in 1..4 : a[i] < b[i] /\ \A j \in (i + 1)..4 : a[j] = b[j]
LeqU64(a, b) == a = b \/ LessU64(a, b)

\* x << 32 on u64: the two high limbs fall off
Shl32(x) == <<0, 0, x[1], x[2]>>
\* x >> 32
Shr32(x) == <<x[3], x[4], 0, 0>>
\* x & 0xffffffff
Mask32(x) == <<x[1], x[2], 0, 0>>

\* ((start as u64) << 32) + end as u64
Pack(start, end) == AddU64(Shl32(start), end)

UnpackStart(idx) == Shr32(idx)
UnpackEnd(idx) == Mask32(idx)

\* a usize used as a slice bound
Small(x) == x[3] = 0 /\ x[4] = 0 /\ x[2] < 2 ^ 14
ToNat(x) == x[1] + x[2] * LimbBase

(***************************************************************************)
(* The rustdoc document: ids, items and their payloads                     *)
(***************************************************************************)
NoId == <<>>
NoneId == [some |-> FALSE, val |-> NoId]

\* the raw item of the document: the fields of rustdoc_types::Item and of
\* its ItemEnum payload that from_str reads
RawItem(id, name, inner, shape, children, impls) ==
    [id |-> id, name |-> name, inner |-> inner, shape |-> shape,
     vis |-> "public", docs |-> <<>>, items |-> children, impls |-> impls,
     target |-> NoneId, glob |-> FALSE, import_name |-> <<>>,
     has_body |-> FALSE, macro_kind |-> ""]

IsRestricted(item) == item.vis = "restricted"
IsImportTo(item) == item.inner = "import" /\ item.target.some

\* the ItemTypeParent held by the OnceCell `parent`
ParentUnset == [tag |-> "Unset", id |-> NoId, associate_item |-> NoId]
ParentRoot == [tag |-> "Root", id |-> NoId, associate_item |-> NoId]
ParentModuleItem(p) == [tag |-> "ModuleItem", id |-> p, associate_item |-> NoId]
ParentAssociateItem(t) == [tag |-> "AssociateItem", id |-> t, associate_item |-> NoId]
ParentSubAssociateItem(t, a) ==
    [tag |-> "SubAssociateItem", id |-> t, associate_item |-> a]

map_doc_item_kind(item) ==
    CASE item.inner = "module" -> "Module"
      [] item.inner = "extern_crate" -> "ExternCrate"
      [] item.inner = "import" -> "Import"
      [] item.inner = "union" -> "Union"
      [] item.inner = "struct" -> "Struct"
      [] item.inner = "struct_field" -> "StructField"
      [] item.inner = "enum" -> "Enum"
      [] item.inner = "variant" -> "Variant"
      [] item.inner = "function" -> "Function"
      [] item.inner = "trait" -> "Trait"
      [] item.inner = "trait_alias" -> "TraitAlias"
      [] item.inner = "impl" -> "Impl"
      [] item.inner = "type_alias" -> "Typedef"
      [] item.inner = "constant" -> "Constant"
      [] item.inner = "static" -> "Static"
      [] item.inner = "foreign_type" -> "ForeignType"
      [] item.inner = "macro" -> "Macro"
      [] item.inner = "proc_macro" ->
            (CASE item.macro_kind = "bang" -> "Macro"
               [] item.macro_kind = "attr" -> "AttributeMacro"
               [] OTHER -> "DeriveMacro")
      [] item.inner = "primitive" -> "Primitive"
      [] item.inner = "assoc_const" -> "AssociatedConst"
      [] OTHER -> "AssociatedType"

fix_associated_item_kind(kind, item) ==
    IF kind = "Function" /\ item.inner = "function"
    THEN IF item.has_body THEN "Method" ELSE "TyMethod"
    ELSE kind

\* item.name, or the import's name, or ""
NodeName(item) ==
    IF item.name.some THEN item.name.val
    ELSE IF item.inner = "import" THEN item.import_name ELSE <<>>

\* impl From<&ItemNode> for TypeItem
TypeItemFrom(node) == TypeItemOf(node.kind, node.name)

\* the node map as collected, and the root's parent link
Augment(d) ==
    [id \in DOMAIN d.index |->
        [item |-> d.index[id],
         name |-> NodeName(d.index[id]),
         kind |-> map_doc_item_kind(d.index[id]),
         parent |-> IF id = d.root THEN ParentRoot ELSE ParentUnset,
         imported_by |-> <<>>]]

(***************************************************************************)
(* The classification pass ('node_loop)                                    *)
(***************************************************************************)
RECURSIVE FollowLast(_, _, _, _)
\* the mutant: a chain that leaves the graph resolves to its last import
FollowLast(ns, cur, prev, fuel) ==
    IF cur \notin DOMAIN ns
    THEN IF prev = NoId THEN [status |-> "absent", id |-> NoId]
         ELSE [status |-> "found", id |-> prev]
    ELSE IF IsImportTo(ns[cur].item)
    THEN IF fuel = 0 THEN [status |-> "hang", id |-> NoId]
         ELSE FollowLast(ns, ns[cur].item.target.val, cur, fuel - 1)
    ELSE [status |-> "found", id |-> cur]

RECURSIVE FollowChain(_, _, _, _)
\* the chain-follow loop: to the first node that is not an import with a
\* target; "absent" when a hop is not in the node map; "hang" when the loop
\* has made more hops than there are nodes, so that it never leaves
FollowChain(ns, cur, prev, fuel) ==
    IF cur \notin DOMAIN ns THEN [status |-> "absent", id |-> NoId]
    ELSE IF IsImportTo(ns[cur].item)
    THEN IF fuel = 0 THEN [status |-> "hang", id |-> NoId]
         ELSE FollowChain(ns, ns[cur].item.target.val, cur, fuel - 1)
    ELSE [status |-> "found", id |-> cur]

\* item.parent.set(link).ok(), with fix_associated_item_kind where the code
\* calls it
SetParent(ns, c, link, fix) ==
    [ns EXCEPT ![c] =
        [@ EXCEPT !.parent = IF @.tag = "Unset" THEN link ELSE @,
                  !.kind = IF fix THEN fix_associated_item_kind(@, ns[c].item) ELSE @]]

RECURSIVE SetParents(_, _, _, _)
\* items.iter().filter_map(|item| nodes.get(item)).for_each(set parent)
SetParents(ns, ids, link, fix) ==
    IF ids = <<>> THEN ns
    ELSE SetParents(IF Head(ids) \in DOMAIN ns
                    THEN SetParent(ns, Head(ids), link, fix) ELSE ns,
                    Tail(ids), link, fix)

Prelude == <<112, 114, 101, 108, 117, 100, 101>>

\* the mutant: the children of every module are linked to it
ClassifyChildrenAll(ns, id) ==
    LET item == ns[id].item
    IN  CASE item.inner = "module" ->
                SetParents(ns, item.items, ParentModuleItem(id), FALSE)
          [] \/ item.inner \in {"union", "enum", "trait"}
             \/ (item.inner = "struct" /\ item.shape = "plain") ->
                SetParents(ns, item.items, ParentAssociateItem(id), TRUE)
          [] item.inner \in {"struct", "variant"} /\ item.shape = "tuple" ->
                SetParents(ns, item.items, ParentAssociateItem(id), FALSE)
          [] OTHER -> ns

\* match &node.item.inner: the direct descendants
ClassifyChildren(ns, id) ==
    LET item == ns[id].item
    IN  CASE item.inner = "module" ->
                IF ns[id].name # Prelude
                THEN SetParents(ns, item.items, ParentModuleItem(id), FALSE)
                ELSE ns
          [] \/ item.inner \in {"union", "enum", "trait"}
             \/ (item.inner = "struct" /\ item.shape = "plain") ->
                SetParents(ns, item.items, ParentAssociateItem(id), TRUE)
          [] item.inner \in {"struct", "variant"} /\ item.shape = "tuple" ->
                SetParents(ns, item.items, ParentAssociateItem(id), FALSE)
          [] OTHER -> ns

RECURSIVE ClassifyVariantFields(_, _, _)
\* the fields of the enum's struct-style variants
ClassifyVariantFields(ns, id, variants) ==
    IF variants = <<>> THEN ns
    ELSE LET v == Head(variants)
         IN  ClassifyVariantFields(
                 IF v \in DOMAIN ns /\ ns[v].item.inner = "variant"
                        /\ ns[v].item.shape = "struct"
                 THEN SetParents(ns, ns[v].item.items,
                                 ParentSubAssociateItem(id, v), FALSE)
                 ELSE ns,
                 id, Tail(variants))

RECURSIVE ClassifyImpls(_, _, _)
\* the impls of a type and the items of each impl
ClassifyImpls(ns, id, impls) ==
    IF impls = <<>> THEN ns
    ELSE LET i == Head(impls)
             ns1 == IF i \in DOMAIN ns
                    THEN SetParent(ns, i, ParentAssociateItem(id), TRUE) ELSE ns
             ns2 == IF i \in DOMAIN ns /\ ns[i].item.inner = "impl"
                    THEN SetParents(ns1, ns[i].item.items, ParentAssociateItem(id), TRUE)
                    ELSE ns1
         IN  ClassifyImpls(ns2, id, Tail(impls))

\* the mutant of the chain-follow
ResolveImportLast(ns, id) ==
    FollowLast(ns, ns[id].item.target.val, NoId, Cardinality(DOMAIN ns))

\* the chain-follow of one import, from its target
ResolveImport(ns, id) ==
    FollowChain(ns, ns[id].item.target.val, NoId, Cardinality(DOMAIN ns))

\* one iteration of 'node_loop
ClassifyNode(ns, id) ==
    LET item == ns[id].item
        r == ResolveImport(ns, id)
        ns1 == IF IsImportTo(item)
               THEN [ns EXCEPT ![r.id].imported_by = Append(@, id)] ELSE ns
        ns2 == ClassifyChildren(ns1, id)
        ns3 == IF item.inner = "enum" THEN ClassifyVariantFields(ns2, id, item.items) ELSE ns2
        ns4 == IF item.inner \in {"union", "struct", "enum", "primitive"}
               THEN ClassifyImpls(ns3, id, item.impls) ELSE ns3
    IN  IF IsImportTo(item) /\ r.status = "hang" THEN [hang |-> TRUE, nodes |-> ns]
        ELSE IF IsImportTo(item) /\ r.status = "absent" THEN [hang |-> FALSE, nodes |-> ns]
        ELSE [hang |-> FALSE, nodes |-> ns4]

RECURSIVE ClassifyAll(_, _)
\* the whole pass over an iteration order (no import cycle on the way)
ClassifyAll(ns, ord) ==
    IF ord = <<>> THEN ns
    ELSE ClassifyAll(ClassifyNode(ns, Head(ord)).nodes, Tail(ord))

(***************************************************************************)
(* generate_path                                                           *)
(***************************************************************************)
CachePut(cache, k, v) == (k :> v) @@ cache

RECURSIVE TrimColons(_)
\* str::trim_start_matches("::")
TrimColons(s) ==
    IF Len(s) >= 2 /\ s[1] = Colon /\ s[2] = Colon THEN TrimColons(SubSeq(s, 3, Len(s)))
    ELSE s

\* the mutant: a named import contributes the name of the node it imports
PathTailTarget(ns, id, omit_self) ==
    IF omit_self \/ (ns[id].item.inner = "import" /\ ns[id].item.glob) THEN <<>>
    ELSE IF IsImportTo(ns[id].item) /\ ns[id].item.target.val \in DOMAIN ns
    THEN <<Colon, Colon>> \o ns[ns[id].item.target.val].name
    ELSE <<Colon, Colon>> \o ns[id].name

\* tail: "" when omit_self or a glob import, else "::" + name
PathTail(ns, id, omit_self) ==
    IF omit_self \/ (ns[id].item.inner = "import" /\ ns[id].item.glob) THEN <<>>
    ELSE <<Colon, Colon>> \o ns[id].name

\* the deepest recursion a terminating call can reach: a chain of frames
\* (node, omit_self) that repeats a frame repeats it for ever
StackDepth(ns) == 2 * Cardinality(DOMAIN ns) + 1

RECURSIVE generate_path(_, _, _, _, _)
RECURSIVE GenerateImportPaths(_, _, _, _, _)

\* the fan-out loop over imported_by
GenerateImportPaths(ns, imps, omit_self, cache, fuel) ==
    IF imps = <<>> THEN [paths |-> <<>>, cache |-> cache, ovf |-> FALSE]
    ELSE IF Head(imps) \notin DOMAIN ns
    THEN GenerateImportPaths(ns, Tail(imps), omit_self, cache, fuel)
    ELSE LET r == generate_path(ns, Head(imps), omit_self, cache, fuel)
         IN  IF r.ovf THEN r
             ELSE LET rest == GenerateImportPaths(ns, Tail(imps), omit_self, r.cache, fuel)
                  IN  [paths |-> r.paths \o rest.paths, cache |-> rest.cache,
                       ovf |-> rest.ovf]

\* generate_path(starting_node, omit_self, nodes, path_cache): the paths, the
\* cache afterwards, and whether the recursion overran the stack
generate_path(ns, id, omit_self, cache, fuel) ==
    LET node == ns[id]
        cache_key == node.item.id
        tail == PathTail(ns, id, omit_self)
    IN  IF fuel = 0 THEN [paths |-> <<>>, cache |-> cache, ovf |-> TRUE]
        ELSE IF ~omit_self /\ cache_key \in DOMAIN cache
        THEN [paths |-> cache[cache_key], cache |-> cache, ovf |-> FALSE]
        ELSE IF IsRestricted(node.item)
        THEN [paths |-> <<>>, cache |-> CachePut(cache, node.name, <<>>), ovf |-> FALSE]
        ELSE LET own ==
                    IF node.parent.tag = "ModuleItem" /\ node.parent.id \in DOMAIN ns
                    THEN LET r == generate_path(ns, node.parent.id, FALSE, cache, fuel - 1)
                         IN  [paths |-> [i \in 1..Len(r.paths) |-> r.paths[i] \o tail],
                              cache |-> r.cache, ovf |-> r.ovf]
                    ELSE IF node.parent.tag = "Root"
                    THEN [paths |-> <<TrimColons(tail)>>, cache |-> cache, ovf |-> FALSE]
                    ELSE [paths |-> <<>>, cache |-> cache, ovf |-> FALSE]
                 fan == GenerateImportPaths(ns, node.imported_by, omit_self,
                                            own.cache, fuel - 1)
                 paths == own.paths \o fan.paths
             IN  IF own.ovf THEN own
                 ELSE IF fan.ovf THEN fan
                 ELSE [paths |-> paths,
                       cache |-> IF omit_self THEN fan.cache
                                 ELSE CachePut(fan.cache, cache_key, paths),
                       ovf |-> FALSE]

(***************************************************************************)
(* Entry assembly                                                          *)
(***************************************************************************)
\* what the assembly has built so far
Assembly(cache, set, out, ovf) ==
    [cache |-> cache, items |-> set, emitted |-> out, ovf |-> ovf]

\* an emitted DocItem with the node it is for and the owner it is under
Emission(e, id, owner) == [item |-> e, node |-> id, owner |-> owner]

EmissionItems(es) == [i \in 1..Len(es) |-> es[i].item]

\* the mutant: the anchor page is the type parent's own TypeItem
OwnerPageType(ns, type_parent, owner) == TypeItemFrom(ns[type_parent])

\* the anchor page of an associated entry: the type parent's kind with the
\* owner's name
OwnerPage(ns, type_parent, owner) == TypeItemOf(ns[type_parent].kind, ns[owner].name)

RECURSIVE AppendOwners(_, _, _, _, _, _)
\* the flat_map over the owners of append_associate_items
AppendOwners(ns, id, type_parent, sub, owners, st) ==
    IF owners = <<>> \/ st.ovf THEN st
    ELSE LET o == Head(owners)
             r == generate_path(ns, o, TRUE, st.cache, StackDepth(ns))
             page == OwnerPage(ns, type_parent, o)
             link == IF sub = NoId THEN LinkAssociateItem(page)
                     ELSE LinkSubAssociateItem(page, TypeItemFrom(ns[sub]))
             new == [i \in 1..Len(r.paths) |->
                        Emission(DocItem(TypeItemFrom(ns[id]), link, r.paths[i],
                                         ns[id].item.docs), id, o)]
         IN  AppendOwners(ns, id, type_parent, sub, Tail(owners),
                          Assembly(r.cache, st.items, st.emitted \o new, r.ovf))

\* append_associate_items: the re-exporters of type_parent, then type_parent
append_associate_items(ns, id, type_parent, sub, st) ==
    IF type_parent \notin DOMAIN ns THEN st
    ELSE LET reexports == SelectSeq(ns[type_parent].imported_by,
                                    LAMBDA i : i \in DOMAIN ns)
             done == AppendOwners(ns, id, type_parent, sub,
                                  Append(reexports, type_parent),
                                  Assembly(st.cache, st.items, <<>>, FALSE))
         IN  Assembly(done.cache, BTreeExtend(st.items, EmissionItems(done.emitted)),
                      st.emitted \o done.emitted, done.ovf)

\* the filters in front of the for_each
Assembled(ns, id) ==
    /\ ~IsRestricted(ns[id].item)
    /\ ns[id].item.inner # "import"
    /\ ns[id].item.inner # "impl"
    /\ ns[id].parent.tag # "Unset"
    /\ ns[id].parent.tag = "AssociateItem" =>
        /\ ns[id].parent.id \in DOMAIN ns
        /\ ~(/\ ns[ns[id].parent.id].item.inner \in {"struct", "variant"}
             /\ ns[ns[id].parent.id].item.shape = "tuple")

\* one node of the for_each
AssembleNode(ns, id, st) ==
    LET node == ns[id]
    IN  IF ~Assembled(ns, id) THEN st
        ELSE IF node.parent.tag = "AssociateItem"
        THEN append_associate_items(ns, id, node.parent.id, NoId, st)
        ELSE IF node.parent.tag = "SubAssociateItem"
        THEN IF node.parent.associate_item \notin DOMAIN ns THEN st
             ELSE append_associate_items(ns, id, node.parent.id,
                                         node.parent.associate_item, st)
        ELSE LET r == generate_path(ns, id, TRUE, st.cache, StackDepth(ns))
                 link == IF node.kind = "Module" THEN LinkIndex ELSE LinkPage
                 new == [i \in 1..Len(r.paths) |->
                            Emission(DocItem(TypeItemFrom(node), link, r.paths[i],
                                             node.item.docs), id, id)]
             IN  Assembly(r.cache, BTreeExtend(st.items, EmissionItems(new)),
                          st.emitted \o new, r.ovf)

RECURSIVE AssembleAll(_, _, _)
\* the whole for_each over an iteration order
AssembleAll(ns, ord, st) ==
    IF ord = <<>> \/ st.ovf THEN st
    ELSE AssembleAll(ns, Tail(ord), AssembleNode(ns, Head(ord), st))

(***************************************************************************)
(* from_str, node by node                                                  *)
(***************************************************************************)
\* the single format version the parser accepts
FORMAT_VERSION == 28

NoResult == [tag |-> "none", version |-> 0]
OkResult == [tag |-> "Ok", version |-> 0]
UnsupportedFormatVersion(v) == [tag |-> "UnsupportedFormatVersion", version |-> v]

\* the variables a specification does not use stay as they start
ParseIdle ==
    /\ doc = <<>> /\ order = <<>> /\ nodes = <<>> /\ pos = 0
    /\ path_cache = <<>> /\ emitted = <<>> /\ result = NoResult
IndexIdle == index = <<>> /\ aut = {} /\ found = <<>>
MergeIdle == other = <<>> /\ before = <<>>
PackIdle ==
    /\ plen = U64Zero /\ pgroup = <<U64Zero, U64Zero>>
    /\ packed = U64Zero /\ decoded = <<U64Zero, U64Zero>>

\* the mutant: only older documents are refused
VersionRefusedIfOlder(d) == d.format_version < FORMAT_VERSION

\* doc.format_version != FORMAT_VERSION
VersionRefused(d) == d.format_version # FORMAT_VERSION

RECURSIVE Orders(_)
\* the orders in which a hash map over these ids may iterate
Orders(S) ==
    IF S = {} THEN {<<>>}
    ELSE UNION {{<<x>> \o o : o \in Orders(S \ {x})} : x \in S}

\* from_str up to the node map: the version check, the augmentation, the
\* root's parent link; the map's iteration order is fixed from here on
FromStrHead ==
    /\ pc = "start"
    /\ IF VersionRefused(doc)
       THEN /\ result' = UnsupportedFormatVersion(doc.format_version)
            /\ pc' = "failed"
            /\ UNCHANGED <<nodes, order>>
       ELSE /\ nodes' = Augment(doc)
            /\ order' \in Orders(DOMAIN doc.index)
            /\ pc' = "classify"
            /\ UNCHANGED result
    /\ UNCHANGED <<doc, pos, path_cache, items, emitted, indexVars, packVars, mergeVars>>

\* one iteration of 'node_loop; an import chain that never ends hangs it
ClassifyStep ==
    /\ pc = "classify" /\ pos < Len(order)
    /\ LET r == ClassifyNode(nodes, order[pos + 1])
       IN  IF r.hang THEN pc' = "hang" /\ UNCHANGED <<nodes, pos>>
           ELSE pc' = pc /\ nodes' = r.nodes /\ pos' = pos + 1
    /\ UNCHANGED <<doc, order, path_cache, items, emitted, result, indexVars, packVars, mergeVars>>

\* the pass is over: path_cache and items are created
BeginAssembly ==
    /\ pc = "classify" /\ pos = Len(order)
    /\ pc' = "assemble" /\ pos' = 0
    /\ path_cache' = <<>> /\ items' = <<>>
    /\ UNCHANGED <<doc, order, nodes, emitted, result, indexVars, packVars, mergeVars>>

\* one node of the entry assembly; a recursion that never ends overruns the
\* stack
AssembleStep ==
    /\ pc = "assemble" /\ pos < Len(order)
    /\ LET st == AssembleNode(nodes, order[pos + 1],
                              Assembly(path_cache, items, emitted, FALSE))
       IN  IF st.ovf THEN pc' = "overflow" /\ UNCHANGED <<pos, path_cache, items, emitted>>
           ELSE /\ pc' = pc /\ pos' = pos + 1
                /\ path_cache' = st.cache /\ items' = st.items
                /\ emitted' = st.emitted
    /\ UNCHANGED <<doc, order, nodes, result, indexVars, packVars, mergeVars>>

\* Ok(RustDoc::new(items))
Finish ==
    /\ pc = "assemble" /\ pos = Len(order)
    /\ pc' = "done" /\ result' = OkResult
    /\ UNCHANGED <<doc, order, nodes, pos, path_cache, items, emitted, indexVars, packVars, mergeVars>>

Next == FromStrHead \/ ClassifyStep \/ BeginAssembly \/ AssembleStep \/ Finish

(***************************************************************************)
(* The documents the parser is run on                                      *)
(***************************************************************************)
MaxRestricted == 1
MaxAbsent == 1

Id(k) == <<48, Colon, 48 + k>>

Module(k, name, children) ==
    RawItem(Id(k), Some(name), "module", "", children, <<>>)
Function(k, name) ==
    [RawItem(Id(k), Some(name), "function", "", <<>>, <<>>)
        EXCEPT !.has_body = TRUE, !.docs = <<100>>]
Import(k, alias, target, glob) ==
    [RawItem(Id(k), None, "import", "", <<>>, <<>>)
        EXCEPT !.target = Some(target), !.glob = glob, !.import_name = alias]
Struct(k, name, shape, fields, impls) ==
    RawItem(Id(k), Some(name), "struct", shape, fields, impls)
Enum(k, name, variants) == RawItem(Id(k), Some(name), "enum", "", variants, <<>>)
Variant(k, name, shape, fields) ==
    RawItem(Id(k), Some(name), "variant", shape, fields, <<>>)
StructField(k, name) == RawItem(Id(k), Some(name), "struct_field", "", <<>>, <<>>)
Trait(k, name, members) == RawItem(Id(k), Some(name), "trait", "", members, <<>>)

\* the index of a document holding these items
Graph(its) ==
    [id \in {its[i].id : i \in 1..Len(its)} |->
        (CHOOSE it \in {its[i] : i \in 1..Len(its)} : it.id = id)]

\* mod r { mod m { fn f }  pub use m::*  or  pub use m as a }, the import in
\* r itself or in a second module n of r
TplModuleImport(glob, nested) ==
    Graph(<<Module(1, <<114>>, IF nested THEN <<Id(2), Id(5)>> ELSE <<Id(2), Id(4)>>),
            Module(2, <<109>>, <<Id(3)>>),
            Function(3, <<102>>),
            Import(4, <<97>>, Id(2), glob)>>
          \o IF nested THEN <<Module(5, <<110>>, <<Id(4)>>)>> ELSE <<>>)

\* mod r { pub use m::f;  mod m { fn f;  pub use super::f } }, the second
\* import naming the first; the module is called m or, like the function, f
TplFanOut(mname) ==
    Graph(<<Module(1, <<114>>, <<Id(2), Id(4)>>),
            Module(2, mname, <<Id(3), Id(5)>>),
            Function(3, <<102>>),
            Import(4, <<102>>, Id(3), FALSE),
            Import(5, <<102>>, Id(4), FALSE)>>)

\* mod r { struct S { x }  pub use S  or  pub use S as A }
TplType(alias) ==
    Graph(<<Module(1, <<114>>, <<Id(2), Id(4)>>),
            Struct(2, <<83>>, "plain", <<Id(3)>>, <<>>),
            StructField(3, <<120>>),
            Import(4, alias, Id(2), FALSE)>>)

\* mod r { mod m { fn f }  trait t { fn f } }, both listing the same item
TplShared ==
    Graph(<<Module(1, <<114>>, <<Id(2), Id(3)>>),
            Module(2, <<109>>, <<Id(4)>>),
            Trait(3, <<116>>, <<Id(4)>>),
            Function(4, <<102>>)>>)

\* mod r { mod prelude { fn f }  pub use prelude::f }
TplPrelude ==
    Graph(<<Module(1, <<114>>, <<Id(2), Id(4)>>),
            Module(2, Prelude, <<Id(3)>>),
            Function(3, <<102>>),
            Import(4, <<102>>, Id(3), FALSE)>>)

Templates ==
    {TplModuleImport(g, n) : g \in BOOLEAN, n \in BOOLEAN}
    \cup {TplFanOut(n) : n \in {<<109>>, <<102>>}}
    \cup {TplType(a) : a \in {<<83>>, <<65>>}}
    \cup {TplShared, TplPrelude}

Restrict(g, rs) ==
    [id \in DOMAIN g |-> IF id \in rs THEN [g[id] EXCEPT !.vis = "restricted"] ELSE g[id]]
Drop(g, ds) == [id \in DOMAIN g \ ds |-> g[id]]

Graphs ==
    {Drop(Restrict(g, rs), ds) :
        g \in Templates,
        rs \in {x \in SUBSET {Id(k) : k \in 1..5} : Cardinality(x) <= MaxRestricted},
        ds \in {x \in SUBSET {Id(k) : k \in 2..5} : Cardinality(x) <= MaxAbsent}}

Versions == {FORMAT_VERSION - 1, FORMAT_VERSION, FORMAT_VERSION + 1}

Init ==
    /\ pc = "start"
    /\ doc \in {[format_version |-> v, root |-> Id(1), index |-> g] :
                    v \in Versions, g \in Graphs}
    /\ order = <<>> /\ nodes = <<>> /\ pos = 0
    /\ path_cache = <<>> /\ items = <<>> /\ emitted = <<>>
    /\ result = NoResult
    /\ IndexIdle /\ PackIdle /\ MergeIdle

Spec == Init /\ [][Next]_vars

(***************************************************************************)
(* Documents with cycles: imports naming each other, and a module that an  *)
(* import inside it re-exports                                             *)
(***************************************************************************)
\* mod r { pub use self::a as a }: an import whose target is itself
TplSelfImport ==
    Graph(<<Module(1, <<114>>, <<Id(2), Id(3)>>),
            Import(2, <<97>>, Id(2), FALSE),
            Function(3, <<102>>)>>)

\* mod r { pub use b as a;  pub use a as b }: two imports naming each other
TplImportLoop ==
    Graph(<<Module(1, <<114>>, <<Id(2), Id(3)>>),
            Import(2, <<97>>, Id(3), FALSE),
            Import(3, <<98>>, Id(2), FALSE)>>)

\* mod r { mod m { pub use super::m as a } }, the import in m itself or in a
\* module n of m
TplModuleLoop(nested) ==
    Graph(<<Module(1, <<114>>, <<Id(2)>>),
            Module(2, <<109>>, IF nested THEN <<Id(3)>> ELSE <<Id(4)>>),
            Import(4, <<97>>, Id(2), FALSE)>>
          \o IF nested THEN <<Module(3, <<110>>, <<Id(4)>>)>> ELSE <<>>)

CycleTemplates ==
    {TplSelfImport, TplImportLoop, TplModuleImport(FALSE, FALSE)}
    \cup {TplModuleLoop(n) : n \in BOOLEAN}

CycleGraphs ==
    {Restrict(g, rs) :
        g \in CycleTemplates,
        rs \in {x \in SUBSET {Id(k) : k \in 1..4} : Cardinality(x) <= MaxRestricted}}

InitCycle ==
    /\ pc = "start"
    /\ doc \in {[format_version |-> FORMAT_VERSION, root |-> Id(1), index |-> g] :
                    g \in CycleGraphs}
    /\ order = <<>> /\ nodes = <<>> /\ pos = 0
    /\ path_cache = <<>> /\ items = <<>> /\ emitted = <<>>
    /\ result = NoResult
    /\ IndexIdle /\ PackIdle /\ MergeIdle

SpecCycle == InitCycle /\ [][Next]_vars

(***************************************************************************)
(* Documents in which a node's name may be another node's id               *)
(***************************************************************************)
\* mod r { mod <name> { fn g }  mod m { fn f } }, the first module named n
\* or by the id of module m
TplNamed(name) ==
    Graph(<<Module(1, <<114>>, <<Id(2), Id(3)>>),
            Module(2, name, <<Id(5)>>),
            Module(3, <<109>>, <<Id(4)>>),
            Function(4, <<102>>),
            Function(5, <<103>>)>>)

NameGraphs ==
    {Restrict(TplNamed(n), rs) :
        n \in {<<110>>, Id(3)},
        rs \in {x \in SUBSET {Id(k) : k \in 1..5} : Cardinality(x) <= MaxRestricted}}

InitNames ==
    /\ pc = "start"
    /\ doc \in {[format_version |-> FORMAT_VERSION, root |-> Id(1), index |-> g] :
                    g \in NameGraphs}
    /\ order = <<>> /\ nodes = <<>> /\ pos = 0
    /\ path_cache = <<>> /\ items = <<>> /\ emitted = <<>>
    /\ result = NoResult
    /\ IndexIdle /\ PackIdle /\ MergeIdle

SpecNames == InitNames /\ [][Next]_vars

(***************************************************************************)
(* The parser run as a whole, and the path rules of the specification      *)
(***************************************************************************)
\* from_str on document d with the node map iterating in order ord
RunParse(d, ord) ==
    LET ns == ClassifyAll(Augment(d), ord)
        st == AssembleAll(ns, ord, Assembly(<<>>, <<>>, <<>>, FALSE))
    IN  [nodes |-> ns, items |-> st.items, emitted |-> st.emitted]

RECURSIVE AscendingIds(_)
\* the ids in ascending byte order
AscendingIds(S) ==
    IF S = {} THEN <<>>
    ELSE LET m == CHOOSE x \in S : \A y \in S : LexCmp(x, y) # "Greater"
         IN  <<m>> \o AscendingIds(S \ {m})

Range(f) == {f[i] : i \in DOMAIN f}

RECURSIVE Split(_)
\* the segments between "::" separators
Split(s) ==
    LET seps == {i \in 1..(Len(s) - 1) : s[i] = Colon /\ s[i + 1] = Colon}
    IN  IF seps = {} THEN <<s>>
        ELSE <<SubSeq(s, 1, Min(seps) - 1)>> \o Split(SubSeq(s, Min(seps) + 2, Len(s)))

RECURSIVE RefPaths(_, _, _, _)
\* the paths of a node by the rules of the path generator, as a set and
\* without a cache: none for a restricted node; the parent module's paths
\* with "::name" appended (nothing appended when omit_self or for a glob
\* import), the bare name for the root; and the paths of every importer
RefPaths(ns, id, omit_self, fuel) ==
    IF fuel = 0 \/ IsRestricted(ns[id].item) THEN {}
    ELSE LET tail == IF omit_self \/ (ns[id].item.inner = "import" /\ ns[id].item.glob)
                     THEN <<>> ELSE <<Colon, Colon>> \o ns[id].name
             own == IF ns[id].parent.tag = "ModuleItem"
                    THEN {q \o tail : q \in RefPaths(ns, ns[id].parent.id, FALSE, fuel - 1)}
                    ELSE IF ns[id].parent.tag = "Root"
                    THEN {IF tail = <<>> THEN <<>> ELSE ns[id].name}
                    ELSE {}
         IN  own \cup UNION {RefPaths(ns, j, omit_self, fuel - 1) :
                                j \in Range(ns[id].imported_by)}

EmittedPaths(id) == {emitted[i].item.path : i \in {j \in 1..Len(emitted) : emitted[j].node = id}}

RECURSIVE ChainDangles(_, _, _)
\* whether the target chain of import id leaves the document
ChainDangles(g, id, fuel) ==
    /\ g[id].inner = "import" /\ g[id].target.some /\ fuel > 0
    /\ \/ g[id].target.val \notin DOMAIN g
       \/ ChainDangles(g, g[id].target.val, fuel - 1)

\* the document without its dangling references: absent children and impls
\* unlisted, the imports whose chain leaves the document without a target
Sanitize(d) ==
    LET g == d.index
        Present(ids) == SelectSeq(ids, LAMBDA c : c \in DOMAIN g)
    IN  [d EXCEPT !.index =
            [id \in DOMAIN g |->
                [g[id] EXCEPT !.items = Present(@), !.impls = Present(@),
                              !.target = IF ChainDangles(g, id, Cardinality(DOMAIN g))
                                         THEN NoneId ELSE @]]]


(***************************************************************************)
(* DocItem::fmt_url                                                        *)
(***************************************************************************)
\* DocItemKind::as_str
as_str(kind) ==
    CASE kind = "Module" -> <<109, 111, 100, 117, 108, 101>>   \* "module"
      [] kind = "ExternCrate" -> <<101, 120, 116, 101, 114, 110, 99, 114, 97, 116, 101>>   \* "externcrate"
      [] kind = "Import" -> <<105, 109, 112, 111, 114, 116>>   \* "import"
      [] kind = "Struct" -> <<115, 116, 114, 117, 99, 116>>   \* "struct"
      [] kind = "Enum" -> <<101, 110, 117, 109>>   \* "enum"
      [] kind = "Function" -> <<102, 110>>   \* "fn"
      [] kind = "Typedef" -> <<116, 121, 112, 101>>   \* "type"
      [] kind = "Static" -> <<115, 116, 97, 116, 105, 99>>   \* "static"
      [] kind = "Trait" -> <<116, 114, 97, 105, 116>>   \* "trait"
      [] kind = "TraitAlias" -> <<116, 114, 97, 105, 116, 97, 108, 105, 97, 115>>   \* "traitalias"
      [] kind = "Impl" -> <<105, 109, 112, 108>>   \* "impl"
      [] kind = "TyMethod" -> <<116, 121, 109, 101, 116, 104, 111, 100>>   \* "tymethod"
      [] kind = "Method" -> <<109, 101, 116, 104, 111, 100>>   \* "method"
      [] kind = "StructField" -> <<115, 116, 114, 117, 99, 116, 102, 105, 101, 108, 100>>   \* "structfield"
      [] kind = "Variant" -> <<118, 97, 114, 105, 97, 110, 116>>   \* "variant"
      [] kind = "Macro" -> <<109, 97, 99, 114, 111>>   \* "macro"
      [] kind = "AttributeMacro" -> <<97, 116, 116, 114>>   \* "attr"
      [] kind = "DeriveMacro" -> <<100, 101, 114, 105, 118, 101>>   \* "derive"
      [] kind = "Primitive" -> <<112, 114, 105, 109, 105, 116, 105, 118, 101>>   \* "primitive"
      [] kind = "AssociatedType" -> <<97, 115, 115, 111, 99, 105, 97, 116, 101, 100, 116, 121, 112, 101>>   \* "associatedtype"
      [] kind = "Constant" -> <<99, 111, 110, 115, 116, 97, 110, 116>>   \* "constant"
      [] kind = "AssociatedConst" -> <<97, 115, 115, 111, 99, 105, 97, 116, 101, 100, 99, 111, 110, 115, 116>>   \* "associatedconst"
      [] kind = "Union" -> <<117, 110, 105, 111, 110>>   \* "union"
      [] kind = "ForeignType" -> <<102, 111, 114, 101, 105, 103, 110, 116, 121, 112, 101>>   \* "foreigntype"
      [] kind = "Keyword" -> <<107, 101, 121, 119, 111, 114, 100>>   \* "keyword"
      [] OTHER -> <<101, 120, 105, 115, 116, 101, 110, 116, 105, 97, 108>>   \* "existential"

\* Display for TypeItem: "kind.name"
TypeItemDisplay(t) == as_str(t.kind) \o <<46>> \o t.name

RECURSIVE WriteParts(_)
\* for part in parts: write "part/"
WriteParts(parts) ==
    IF parts = <<>> THEN <<>>
    ELSE Head(parts) \o <<47>> \o WriteParts(Tail(parts))

\* fmt_url: every part of path.split("::") followed by "/", then the suffix
\* by link type
fmt_url(e) ==
    WriteParts(Split(e.path)) \o
    (CASE e.link_type.tag = "Index" -> e.name.name \o <<47, 105, 110, 100, 101, 120, 46, 104, 116, 109, 108>>
       [] e.link_type.tag = "Page" -> TypeItemDisplay(e.name) \o <<46, 104, 116, 109, 108>>
       [] e.link_type.tag = "AssociateItem" ->
            TypeItemDisplay(e.link_type.page_item) \o <<46, 104, 116, 109, 108, 35>>
                \o TypeItemDisplay(e.name)
       [] OTHER ->
            TypeItemDisplay(e.link_type.page_item) \o <<46, 104, 116, 109, 108, 35>>
                \o TypeItemDisplay(e.link_type.parent) \o <<46>>
                \o TypeItemDisplay(e.name))

(***************************************************************************)
(* Claims on the parser                                                    *)
(***************************************************************************)
\* C3 (as claimed): the Entry Set does not depend on the order in which the
\* node map iterates: it is the one the ascending order gives.
C3_OrderIndependent ==
    pc = "done" => items = RunParse(doc, AscendingIds(DOMAIN doc.index)).items

UniqueName(id) == \A o \in DOMAIN nodes : o # id => nodes[o].name # nodes[id].name

\* the entries of the set that were emitted for a member of type id
AnchoredAt(e, id) ==
    \E i \in 1..Len(emitted) :
        /\ DocItemEq(emitted[i].item, e)
        /\ nodes[emitted[i].node].parent.tag \in {"AssociateItem", "SubAssociateItem"}
        /\ nodes[emitted[i].node].parent.id = id

\* C4, first half: no entry's path has a segment named by a restricted node
\* (whose name no other node bears).
C4_NoRestrictedSegment ==
    pc = "done" =>
        \A id \in DOMAIN nodes : IsRestricted(nodes[id].item) /\ UniqueName(id) =>
            \A i \in 1..Len(items) : nodes[id].name \notin Range(Split(items[i].path))

\* C4 (as claimed): for a restricted node, no entry's path passes through it
\* and no associated entry is anchored at it, re-exported or not.
C4_RestrictedPruned ==
    /\ C4_NoRestrictedSegment
    /\ pc = "done" =>
        \A id \in DOMAIN nodes : IsRestricted(nodes[id].item) =>
            \A i \in 1..Len(items) : ~AnchoredAt(items[i], id)

RECURSIVE ChainPublic(_, _, _)
\* every import on the chain from import id is public
ChainPublic(ns, id, fuel) ==
    \/ id \notin DOMAIN ns \/ fuel = 0
    \/ ~IsImportTo(ns[id].item)
    \/ ~IsRestricted(ns[id].item) /\ ChainPublic(ns, ns[id].item.target.val, fuel - 1)

\* the paths of the module that holds import i
SitePaths(i) == RefPaths(nodes, i, TRUE, StackDepth(nodes))

\* C5 (as claimed): a public symbol with a page of its own that two public
\* re-export chains end at has, for every path of either re-export site, an
\* entry with its name, kind and anchor at that path.
C5_FanOut ==
    pc = "done" =>
        \A s \in DOMAIN nodes :
            Assembled(nodes, s) /\ nodes[s].parent.tag \in {"Root", "ModuleItem"} =>
                \A i1, i2 \in Range(nodes[s].imported_by) :
                    /\ i1 # i2
                    /\ ChainPublic(nodes, i1, Cardinality(DOMAIN nodes))
                    /\ ChainPublic(nodes, i2, Cardinality(DOMAIN nodes))
                    /\ SitePaths(i1) # {} /\ SitePaths(i2) # {}
                    /\ SitePaths(i1) # SitePaths(i2)
                    => \A p \in SitePaths(i1) \cup SitePaths(i2) :
                        \E k \in 1..Len(items) :
                            /\ items[k].name = TypeItemFrom(nodes[s])
                            /\ items[k].link_type =
                                 (IF nodes[s].kind = "Module" THEN LinkIndex ELSE LinkPage)
                            /\ items[k].path = p

\* an import of a module, its site module and a child of the module, all
\* public
ImportedChild(i, m, c) ==
    /\ nodes[i].item.inner = "import" /\ ~IsRestricted(nodes[i].item)
    /\ nodes[m].item.inner = "module" /\ ~IsRestricted(nodes[m].item)
    /\ i \in Range(nodes[m].imported_by)
    /\ nodes[i].parent.tag = "ModuleItem"
    /\ nodes[c].parent = ParentModuleItem(m) /\ Assembled(nodes, c)

\* C6: the paths of a child of module m through an import i of m are the
\* paths of the module holding i, with nothing appended for a glob import
\* and "::alias" for a named one; and the child has no path but those the
\* path rules give (none with m's own name under the import's module).
C6_GlobAndAlias ==
    pc = "done" =>
        \A i, m, c \in DOMAIN nodes : ImportedChild(i, m, c) =>
            /\ \A q \in RefPaths(nodes, nodes[i].parent.id, FALSE, StackDepth(nodes)) :
                (q \o (IF nodes[i].item.glob THEN <<>>
                       ELSE <<Colon, Colon>> \o nodes[i].item.import_name))
                    \in EmittedPaths(c)
            /\ EmittedPaths(c) = RefPaths(nodes, c, TRUE, StackDepth(nodes))

\* f of m reached through `pub use m as a` in r::n, and through `pub use m::*`
C6_Witness ==
    /\ pc = "done"
    /\ \/ <<114, 58, 58, 110, 58, 58, 97>> \in EmittedPaths(Id(3))
       \/ /\ <<114, 58, 58, 110>> \in EmittedPaths(Id(3))
          /\ Id(4) \in DOMAIN nodes /\ nodes[Id(4)].item.glob

\* C8: a document of another format version is refused with
\* UnsupportedFormatVersion carrying its version, before any node is
\* augmented or classified and with no catalogue; the supported version is
\* never refused.
C8_VersionChecked ==
    /\ (pc # "start" /\ doc.format_version # FORMAT_VERSION) =>
        /\ pc = "failed"
        /\ result = UnsupportedFormatVersion(doc.format_version)
        /\ nodes = <<>> /\ order = <<>> /\ pos = 0
        /\ items = <<>> /\ emitted = <<>> /\ path_cache = <<>>
    /\ doc.format_version = FORMAT_VERSION =>
        pc # "failed" /\ result.tag # "UnsupportedFormatVersion"

\* a newer document refused
C8_Witness ==
    pc = "failed" /\ result = UnsupportedFormatVersion(FORMAT_VERSION + 1)

\* C9: dangling import targets and absent children never fail the parse;
\* an import whose chain leaves the document is in no back-reference list;
\* parent links, kinds, back-references and entries are those of the
\* document without the dangling references.
C9_DanglingSkipped ==
    /\ doc.format_version = FORMAT_VERSION => pc \notin {"failed", "hang", "overflow"}
    /\ pc = "done" =>
        /\ \A i \in DOMAIN nodes :
            ChainDangles(doc.index, i, Cardinality(DOMAIN nodes)) =>
                \A n \in DOMAIN nodes : i \notin Range(nodes[n].imported_by)
        /\ LET ref == RunParse(Sanitize(doc), order)
           IN  /\ items = ref.items
               /\ \A n \in DOMAIN nodes :
                    /\ nodes[n].parent = ref.nodes[n].parent
                    /\ nodes[n].kind = ref.nodes[n].kind
                    /\ nodes[n].imported_by = ref.nodes[n].imported_by

\* a parse that met an import chain leaving the document at its second hop
\* and a module listing an absent child, and still produced entries
C9_Witness ==
    /\ pc = "done" /\ Len(items) >= 2
    /\ \E i \in DOMAIN nodes :
        /\ IsImportTo(nodes[i].item)
        /\ nodes[i].item.target.val \in DOMAIN nodes
        /\ ChainDangles(doc.index, i, Cardinality(DOMAIN nodes))
    /\ \E n \in DOMAIN nodes :
        nodes[n].item.inner = "module" /\ ~(Range(nodes[n].item.items) \subseteq DOMAIN nodes)

\* C10 (as claimed): entries are collapsed only when equal on (name with
\* kind, anchor, path): every emitted entry has its equal in the Entry Set.
C10_DedupOnTriple ==
    \A i \in 1..Len(emitted) :
        \E k \in 1..Len(items) : DocItemEq(items[k], emitted[i].item)

\* the emissions for members of a type, with the type
MemberEmission(i) ==
    /\ i \in 1..Len(emitted)
    /\ nodes[emitted[i].node].parent.tag \in {"AssociateItem", "SubAssociateItem"}

TypeParentOf(i) == nodes[emitted[i].node].parent.id

\* C11 (as claimed): the anchor page of every entry emitted for a member of
\* a type is the TypeItem of the type itself, its kind and its own name, for
\* every owner.
C11_PageIsTypeParent ==
    \A i \in 1..Len(emitted) : MemberEmission(i) =>
        emitted[i].item.link_type.page_item = TypeItemFrom(nodes[TypeParentOf(i)])

\* C11 (amended): the owner of such an entry is the type or an importer of
\* it, and the anchor page has the type's kind and the owner's name: the
\* type's own name under the type, the import's name under a re-export.
C11_PageIsOwnerName ==
    \A i \in 1..Len(emitted) : MemberEmission(i) =>
        LET t == TypeParentOf(i)
            o == emitted[i].owner
        IN  /\ o = t \/ o \in Range(nodes[t].imported_by)
            /\ emitted[i].item.link_type.page_item.kind = nodes[t].kind
            /\ emitted[i].item.link_type.page_item.name = nodes[o].name
            /\ o = t => emitted[i].item.link_type.page_item = TypeItemFrom(nodes[t])

\* field x of struct S emitted under `pub use S as A`, and under S itself
C11_Witness ==
    /\ pc = "done"
    /\ \E i, j \in 1..Len(emitted) :
        /\ MemberEmission(i) /\ MemberEmission(j)
        /\ emitted[i].node = emitted[j].node
        /\ emitted[j].owner = TypeParentOf(j)
        /\ emitted[i].owner # TypeParentOf(i)
        /\ nodes[emitted[i].owner].name # nodes[TypeParentOf(i)].name

RECURSIVE JoinSlash(_)
\* segments joined by "/"
JoinSlash(segs) ==
    IF segs = <<>> THEN <<>>
    ELSE IF Len(segs) = 1 THEN Head(segs)
    ELSE Head(segs) \o <<47>> \o JoinSlash(Tail(segs))

\* the segments of a path: none for the empty path
Segments(path) == IF path = <<>> THEN <<>> ELSE Split(path)

\* "<kind>.<Name>"
KindDotName(t) == as_str(t.kind) \o <<46>> \o t.name

\* the segments joined by "/" and followed by "/", nothing for no segments
LocatorPrefix(path) ==
    IF Segments(path) = <<>> THEN <<>> ELSE JoinSlash(Segments(path)) \o <<47>>

\* the locator as claimed, for the three anchors the claim names
ClaimedLocator(e) ==
    LocatorPrefix(e.path) \o
    (CASE e.link_type.tag = "Index" -> KindDotName(e.name) \o <<47, 105, 110, 100, 101, 120, 46, 104, 116, 109, 108>>
       [] e.link_type.tag = "Page" -> KindDotName(e.name) \o <<46, 104, 116, 109, 108>>
       [] OTHER -> KindDotName(e.link_type.page_item) \o <<46, 104, 116, 109, 108, 35>>
                    \o KindDotName(e.name))

\* the same with a module's suffix "<Name>/index.html", without the kind
PlainIndexLocator(e) ==
    IF e.link_type.tag = "Index"
    THEN LocatorPrefix(e.path) \o e.name.name \o <<47, 105, 110, 100, 101, 120, 46, 104, 116, 109, 108>>
    ELSE ClaimedLocator(e)

Claimed(e) == e.link_type.tag \in {"Index", "Page", "AssociateItem"}

\* C12 (as claimed): the locator of every entry is its path's segments
\* joined by "/", then "/" and the suffix of its anchor, with
\* "<kind>.<Name>/index.html" for a module and no leading or empty segment
\* for the crate root, whose path has no segments.
C12_Locator ==
    \A i \in 1..Len(items) : Claimed(items[i]) =>
        fmt_url(items[i]) = ClaimedLocator(items[i])

\* C12, with the module suffix "<Name>/index.html": still not so for the
\* entries whose path is empty
C12_LocatorPlainIndex ==
    \A i \in 1..Len(items) : Claimed(items[i]) =>
        fmt_url(items[i]) = PlainIndexLocator(items[i])

\* C12, for the entries with a path: so with the module suffix
\* "<Name>/index.html"
C12_LocatorWithPath ==
    \A i \in 1..Len(items) : Claimed(items[i]) /\ items[i].path # <<>> =>
        fmt_url(items[i]) = PlainIndexLocator(items[i])

\* a node the claim gives Index/Page entries: public, no import, no impl
\* block, no member of a type
PageNode(id) ==
    /\ ~IsRestricted(nodes[id].item)
    /\ nodes[id].item.inner \notin {"import", "impl"}
    /\ nodes[id].parent.tag \notin {"AssociateItem", "SubAssociateItem"}

\* generate_path(node, omit_self = true) on a fresh cache
PathsOf(id) == generate_path(nodes, id, TRUE, <<>>, StackDepth(nodes)).paths

\* the paths of the Index/Page entries emitted for a node, in order
EmittedPathSeq(id) ==
    LET es == SelectSeq(emitted, LAMBDA m :
                  /\ m.node = id
                  /\ m.item.name = TypeItemFrom(nodes[id])
                  /\ m.item.link_type =
                        (IF nodes[id].kind = "Module" THEN LinkIndex ELSE LinkPage))
    IN  [i \in 1..Len(es) |-> es[i].item.path]

\* C14 (as claimed): every such node has one Index/Page entry emitted per
\* path of generate_path(node, true), also a node without a parent link that
\* a public import refers to.
C14_EntryPerPath ==
    pc = "done" => \A id \in DOMAIN nodes : PageNode(id) => EmittedPathSeq(id) = PathsOf(id)

\* C14, for the nodes with a parent link
C14_EntryPerPathOfParented ==
    pc = "done" =>
        \A id \in DOMAIN nodes : PageNode(id) /\ nodes[id].parent.tag # "Unset" =>
            EmittedPathSeq(id) = PathsOf(id)

RECURSIVE TargetAfter(_, _, _)
\* the id n target hops after import id, NoId when the chain has ended
TargetAfter(g, id, n) ==
    IF n = 0 THEN id
    ELSE IF id \in DOMAIN g /\ IsImportTo(g[id])
    THEN TargetAfter(g, g[id].target.val, n - 1)
    ELSE NoId

\* the import chain from id comes back to an id it has been at
ChainRevisits(g, id) ==
    \E k \in 0..Cardinality(DOMAIN g), n \in 1..Cardinality(DOMAIN g) :
        /\ TargetAfter(g, id, k) # NoId
        /\ TargetAfter(g, TargetAfter(g, id, k), n) = TargetAfter(g, id, k)

\* C15 (as claimed): the chain-follow of every import ends, also where the
\* targets of imports form a cycle: the classification pass never stays in
\* its loop.
C15_ChainFollowEnds == pc # "hang"

\* C15: the loop is left for every chain that revisits no id
C15_EndsWithoutCycle ==
    pc = "hang" => \E id \in DOMAIN doc.index : ChainRevisits(doc.index, id)

\* C16 (as claimed): every top-level generate_path call returns, also where
\* parent links and back-references together form a cycle: the recursion
\* never outgrows the stack.
C16_GeneratePathEnds == pc # "overflow"

\* a parent link or a back-reference leads from a to b
PathEdge(a, b) ==
    \/ nodes[a].parent.tag = "ModuleItem" /\ nodes[a].parent.id = b
    \/ b \in Range(nodes[a].imported_by)

RECURSIVE PathReach(_, _)
\* the nodes generate_path may recurse into from those in S
PathReach(S, n) ==
    IF n = 0 THEN S
    ELSE PathReach(S \cup {b \in DOMAIN nodes : \E a \in S : PathEdge(a, b)}, n - 1)

\* C16: the recursion ends where no node is reached from itself
C16_EndsWithoutCycle ==
    pc = "overflow" =>
        \E a \in DOMAIN nodes :
            a \in PathReach({b \in DOMAIN nodes : PathEdge(a, b)}, Cardinality(DOMAIN nodes))

Classified == pc \in {"assemble", "done"}

\* the place of a node in the iteration order
OrderPos(id) == CHOOSE i \in 1..Len(order) : order[i] = id

\* the parent link of c was written before the node map came to module m
LinkedEarlier(c, m) ==
    \/ c = doc.root /\ nodes[c].parent = ParentRoot
    \/ /\ nodes[c].parent.tag \in {"ModuleItem", "AssociateItem", "SubAssociateItem"}
       /\ nodes[c].parent.id # m
       /\ OrderPos(nodes[c].parent.id) < OrderPos(m)

\* the present children of module m are linked to m, or were linked earlier
ChildrenLinked(m) ==
    \A c \in Range(nodes[m].item.items) \cap DOMAIN nodes :
        nodes[c].parent = ParentModuleItem(m) \/ LinkedEarlier(c, m)

\* C17 (as claimed): after classification every present node in the child
\* list of a module, of whatever name, has the module as its ModuleChild
\* parent unless an earlier writer linked it.
C17_ChildrenOfEveryModule ==
    Classified =>
        \A m \in DOMAIN nodes : nodes[m].item.inner = "module" => ChildrenLinked(m)

\* C17 (amended): so for every module whose name is not "prelude"; a module
\* named "prelude" links no child to itself; and at the end every entry
\* node linked to a module has the module's paths among its own.
C17_ChildrenOfModulesButPrelude ==
    /\ Classified =>
        \A m \in DOMAIN nodes : nodes[m].item.inner = "module" =>
            IF nodes[m].name # Prelude THEN ChildrenLinked(m)
            ELSE \A c \in DOMAIN nodes : nodes[c].parent # ParentModuleItem(m)
    /\ pc = "done" =>
        \A m, c \in DOMAIN nodes :
            /\ nodes[c].parent = ParentModuleItem(m)
            /\ ~IsRestricted(nodes[c].item) /\ nodes[c].item.inner # "import"
            => RefPaths(nodes, m, FALSE, StackDepth(nodes)) \subseteq EmittedPaths(c)

\* a classified document with a child linked to its module and a present
\* child of a module named prelude left without a parent link
C17_Witness ==
    /\ pc = "done"
    /\ \E m, c \in DOMAIN nodes :
        /\ nodes[m].name = Prelude /\ c \in Range(nodes[m].item.items)
        /\ nodes[c].parent = ParentUnset
    /\ \E m, c \in DOMAIN nodes :
        /\ nodes[c].parent = ParentModuleItem(m)
        /\ RefPaths(nodes, m, FALSE, StackDepth(nodes)) # {}
        /\ EmittedPaths(c) # {}

\* generate_path(node, omit_self = false) on a fresh cache
FullPathsOf(id) == generate_path(nodes, id, FALSE, <<>>, StackDepth(nodes)).paths

\* every cache entry is under the id of a node and holds the node's paths
CacheById ==
    \A k \in DOMAIN path_cache : k \in DOMAIN nodes /\ path_cache[k] = FullPathsOf(k)

\* a call with the cache as it is returns what a call without a cache does
CachedCallsAgree ==
    \A k \in DOMAIN nodes :
        generate_path(nodes, k, FALSE, path_cache, StackDepth(nodes)).paths = FullPathsOf(k)

\* C18 (as claimed): during entry assembly every cache entry is under the
\* id of a node and is the path list generate_path(node, false) computes
\* without a cache, and a cached call returns what an uncached call does,
\* also after restricted nodes have been visited.
C18_CacheKeyedById ==
    pc \in {"assemble", "done"} => CacheById /\ CachedCallsAgree

\* C18, as the code keeps the cache: an entry is under a node's id with the
\* node's paths, or under the name of a restricted node with no paths
C18_CacheByIdOrRestrictedName ==
    pc \in {"assemble", "done"} =>
        \A k \in DOMAIN path_cache :
            \/ k \in DOMAIN nodes /\ path_cache[k] = FullPathsOf(k)
            \/ /\ path_cache[k] = <<>>
               /\ \E n \in DOMAIN nodes : IsRestricted(nodes[n].item) /\ nodes[n].name = k

\* C18: cached and uncached calls agree where no name of a restricted node
\* is the id of a node
C18_AgreeUnlessNameIsId ==
    /\ pc \in {"assemble", "done"}
    /\ \A n \in DOMAIN nodes : IsRestricted(nodes[n].item) => nodes[n].name \notin DOMAIN nodes
    => CachedCallsAgree

(***************************************************************************)
(* RustDoc::build and RustDocSeeker::search                                *)
(***************************************************************************)
\* the mutant: one more entry count passes the capacity check
LenFitsOneMore(len) == LeqU64(len, AddU64(U32Max, U64(1)))

\* assert!(items.len() as u64 <= u32::MAX as u64)
LenFits(len) == LeqU64(len, U32Max)

\* the mutant: the group's end is its last index, not one past it
GroupEndLast(start, last) == last

\* group.last().map_or(start, |(i, _)| i) + 1, on 0-based indices
GroupEnd(start, last) == last + 1

\* chunk_by(index_key) over the enumerated items: one (key, start, end) per
\* maximal run of consecutive items with equal key, in array order
Groups(s) ==
    LET firsts == {i \in 1..Len(s) : i = 1 \/ index_key(s[i]) # index_key(s[i - 1])}
        LastOf(i) == IF \E j \in firsts : j > i
                     THEN Min({j \in firsts : j > i}) - 1 ELSE Len(s)
        Nth(k) == CHOOSE i \in firsts : Cardinality({j \in firsts : j < i}) = k - 1
    IN  [k \in 1..Cardinality(firsts) |->
            [key |-> index_key(s[Nth(k)]),
             start |-> Nth(k) - 1,
             end |-> GroupEnd(Nth(k) - 1, LastOf(Nth(k)) - 1)]]

\* MapBuilder::insert accepts a key only if it is greater than the last one
BuilderAccepts(gs) ==
    \A k \in 2..Len(gs) : LexCmp(gs[k - 1].key, gs[k].key) = "Less"

\* the (key, val) pairs handed to builder.insert
BuildIndex(s) ==
    LET gs == Groups(s)
    IN  [k \in 1..Len(gs) |-> <<gs[k].key, Pack(U64(gs[k].start), U64(gs[k].end))>>]

\* the mutant: the slice takes the entry at end as well, when there is one
SliceInclusive(s, start, end) ==
    SubSeq(s, start + 1, IF end < Len(s) THEN end + 1 ELSE end)

\* &self.items[start..end]
Slice(s, start, end) == SubSeq(s, start + 1, end)

SliceInBounds(s, idx) ==
    /\ Small(UnpackStart(idx)) /\ Small(UnpackEnd(idx))
    /\ ToNat(UnpackStart(idx)) <= ToNat(UnpackEnd(idx))
    /\ ToNat(UnpackEnd(idx)) <= Len(s)

RECURSIVE SearchFrom(_, _, _, _)
\* index.search(aut).into_stream().into_values(), then flat_map over the
\* decoded ranges: the accepted keys in key order
SearchFrom(s, idx, a, k) ==
    IF k > Len(idx) THEN <<>>
    ELSE IF idx[k][1] \in a
    THEN Slice(s, ToNat(UnpackStart(idx[k][2])), ToNat(UnpackEnd(idx[k][2])))
             \o SearchFrom(s, idx, a, k + 1)
    ELSE SearchFrom(s, idx, a, k + 1)

(***************************************************************************)
(* The index specification: an Entry Set is collected, built and searched  *)
(***************************************************************************)
MaxItems == 3

IdxNames == {<<97>>, <<97, 98>>, <<98>>}
IdxPaths == {<<112>>, <<113>>}
IdxPages == {TypeItemOf("Struct", <<83>>), TypeItemOf("Enum", <<84>>)}

IdxUniverse ==
    {DocItem(TypeItemOf("Module", n), LinkIndex, p, <<>>) : n \in IdxNames, p \in IdxPaths}
    \cup {DocItem(TypeItemOf("Macro", n), LinkPage, p, <<>>) : n \in IdxNames, p \in IdxPaths}
    \cup {DocItem(TypeItemOf("Method", n), LinkAssociateItem(g), <<112>>, <<>>) :
              n \in IdxNames, g \in IdxPages}

InitIndex ==
    /\ pc = "collect" /\ items = <<>>
    /\ ParseIdle /\ IndexIdle /\ PackIdle /\ MergeIdle

\* impl Extend<DocItem> for RustDoc, one entry at a time
Insert ==
    /\ pc = "collect" /\ Len(items) < MaxItems
    /\ \E e \in IdxUniverse : items' = BTreeInsert(items, e)
    /\ UNCHANGED <<pc, parseVars, indexVars, packVars, mergeVars>>

\* RustDoc::build
Build ==
    /\ pc = "collect"
    /\ IF ~LenFits(U64(Len(items))) \/ ~BuilderAccepts(Groups(items))
       THEN pc' = "panic" /\ UNCHANGED index
       ELSE pc' = "built" /\ index' = BuildIndex(items)
    /\ UNCHANGED <<items, aut, found, parseVars, packVars, mergeVars>>

\* RustDocSeeker::search
Search ==
    /\ pc = "built"
    /\ \E a \in SUBSET IdxNames :
        /\ aut' = a
        /\ IF \E k \in 1..Len(index) : index[k][1] \in a /\ ~SliceInBounds(items, index[k][2])
           THEN pc' = "panic" /\ UNCHANGED found
           ELSE pc' = "searched" /\ found' = SearchFrom(items, index, a, 1)
    /\ UNCHANGED <<items, index, parseVars, packVars, mergeVars>>

NextIndex == Insert \/ Build \/ Search

SpecIndex == InitIndex /\ [][NextIndex]_vars

(***************************************************************************)
(* The packing specification: entry counts and offsets around 2^32         *)
(***************************************************************************)
NearK == 3

Offsets ==
    {U64(k) : k \in 0..NearK}
    \cup {<<LimbBase - 1 - k, LimbBase - 1, 0, 0>> : k \in 0..NearK}
    \cup {<<k, 0, 1, 0>> : k \in 0..NearK}
    \cup {<<0, 0, 0, 1>>}

InitPack ==
    /\ pc = "pack_start" /\ items = <<>>
    /\ plen \in Offsets
    /\ pgroup = <<U64Zero, U64Zero>> /\ packed = U64Zero
    /\ decoded = <<U64Zero, U64Zero>>
    /\ ParseIdle /\ IndexIdle /\ MergeIdle

\* build's capacity assertion on an Entry Set of plen entries
BuildAssert ==
    /\ pc = "pack_start"
    /\ pc' = IF LenFits(plen) THEN "pack_groups" ELSE "abort"
    /\ UNCHANGED <<items, parseVars, indexVars, packVars, mergeVars>>

\* build packs one group [start, end) of the plen entries
PackGroup ==
    /\ pc = "pack_groups"
    /\ \E s \in Offsets, e \in Offsets :
        /\ LessU64(s, e) /\ LeqU64(e, plen)
        /\ pgroup' = <<s, e>>
        /\ packed' = Pack(s, e)
    /\ pc' = "pack_stored"
    /\ UNCHANGED <<items, parseVars, indexVars, plen, decoded, mergeVars>>

\* search decodes the stored value
Decode ==
    /\ pc = "pack_stored"
    /\ decoded' = <<UnpackStart(packed), UnpackEnd(packed)>>
    /\ pc' = "pack_decoded"
    /\ UNCHANGED <<items, parseVars, indexVars, plen, pgroup, packed, mergeVars>>

NextPack == BuildAssert \/ PackGroup \/ Decode

SpecPack == InitPack /\ [][NextPack]_vars

(***************************************************************************)
(* Claims on the index                                                     *)
(***************************************************************************)
RangeStart(k) == ToNat(UnpackStart(index[k][2]))
RangeEnd(k) == ToNat(UnpackEnd(index[k][2]))

\* C1: after build, every key of the index decodes to a range [start, end)
\* with 0 <= start < end <= number of entries, holding exactly the entries
\* whose search key is that key; every entry lies in exactly one key's range.
\* build itself never panics on an Entry Set.
C1_RangeContiguity ==
    /\ pc # "panic"
    /\ pc \in {"built", "searched"} =>
        /\ \A k \in 1..Len(index) :
            /\ SliceInBounds(items, index[k][2])
            /\ RangeStart(k) < RangeEnd(k)
            /\ \A i \in 1..Len(items) :
                (index_key(items[i]) = index[k][1])
                    <=> (RangeStart(k) < i /\ i <= RangeEnd(k))
        /\ \A i \in 1..Len(items) :
            Cardinality({k \in 1..Len(index) :
                RangeStart(k) < i /\ i <= RangeEnd(k)}) = 1

\* an index with two keys, one of them with a run of two entries
C1_Witness ==
    /\ pc = "built" /\ Len(index) = 2 /\ Len(items) = 3

Accepted(a, s) ==
    LET Test(e) == index_key(e) \in a IN SelectSeq(s, Test)

\* C2: search yields exactly the entries whose search key the automaton
\* accepts, each once, in the order of the sorted backing array.
C2_SearchExact ==
    pc = "searched" => found = Accepted(aut, items)

\* a search that accepts two of three keys and skips the middle one
C2_Witness ==
    /\ pc = "searched" /\ Len(index) = 3
    /\ aut = {<<97>>, <<98>>} /\ Len(found) = 2

\* C7: build aborts exactly when the Entry Set holds more than 2^32-1
\* entries, and every (start, end) it packs is decoded unchanged.
C7_Capacity ==
    /\ pc # "pack_start" => (pc = "abort" <=> LessU64(U32Max, plen))
    /\ pc = "pack_decoded" => decoded = pgroup

\* the largest Entry Set build accepts, and its last group decoded
C7_Witness ==
    /\ pc = "pack_decoded" /\ plen = U32Max
    /\ pgroup[2] = U32Max /\ pgroup[1] = <<LimbBase - 2, LimbBase - 1, 0, 0>>

(***************************************************************************)
(* The merge specification: two catalogues, one extended into the other    *)
(***************************************************************************)
MaxMerge == 2

\* entries of two corpora: a module and a function of one name at one path,
\* one function documented in two ways, one method on two pages of one name
MergeUniverse ==
    {DocItem(TypeItemOf("Module", <<102>>), LinkIndex, <<114>>, <<>>),
     DocItem(TypeItemOf("Function", <<102>>), LinkPage, <<114>>, <<100>>),
     DocItem(TypeItemOf("Function", <<103>>), LinkPage, <<114>>, <<100>>),
     DocItem(TypeItemOf("Function", <<103>>), LinkPage, <<114>>, <<101>>),
     DocItem(TypeItemOf("Function", <<103>>), LinkPage, <<115>>, <<100>>),
     DocItem(TypeItemOf("Method", <<120>>),
             LinkAssociateItem(TypeItemOf("Struct", <<83>>)), <<114>>, <<>>),
     DocItem(TypeItemOf("Method", <<120>>),
             LinkAssociateItem(TypeItemOf("Enum", <<83>>)), <<114>>, <<>>)}

InitMerge ==
    /\ pc = "collect" /\ items = <<>> /\ other = <<>> /\ before = <<>>
    /\ ParseIdle /\ IndexIdle /\ PackIdle

\* the first catalogue is built
Collect ==
    /\ pc = "collect" /\ Len(items) < MaxMerge
    /\ \E e \in MergeUniverse : items' = BTreeInsert(items, e)
    /\ UNCHANGED <<pc, other, before, parseVars, indexVars, packVars>>

\* the second catalogue is built
CollectOther ==
    /\ pc = "collect" /\ Len(other) < MaxMerge
    /\ \E e \in MergeUniverse : other' = BTreeInsert(other, e)
    /\ UNCHANGED <<pc, items, before, parseVars, indexVars, packVars>>

\* impl Extend<DocItem> for RustDoc: all_docs.extend(current_doc)
Extend ==
    /\ pc = "collect"
    /\ before' = items
    /\ items' = BTreeExtend(items, other)
    /\ pc' = "merged"
    /\ UNCHANGED <<other, parseVars, indexVars, packVars>>

\* the merged catalogue extended by itself
ExtendSelf ==
    /\ pc = "merged"
    /\ before' = items
    /\ items' = BTreeExtend(items, items)
    /\ pc' = "remerged"
    /\ UNCHANGED <<other, parseVars, indexVars, packVars>>

NextMerge == Collect \/ CollectOther \/ Extend \/ ExtendSelf

SpecMerge == InitMerge /\ [][NextMerge]_vars

\* an entry with the triple and the description of e is in s
Holds(s, e) == \E k \in 1..Len(s) : DocItemEq(s[k], e) /\ s[k].desc = e.desc

\* the merge is the union of both catalogues, whichever way it is made
UnionOf(a, b) ==
    /\ \A i \in 1..Len(a) : Holds(items, a[i])
    /\ \A i \in 1..Len(b) : Holds(items, b[i])
    /\ \A k \in 1..Len(items) : items[k] \in Range(a) \cup Range(b)
    /\ items = BTreeExtend(b, a)

\* C13 (as claimed): extending one catalogue by another gives the union of
\* their entries, each by name with kind, anchor and path and with its
\* description, and nothing else; the same whichever is extended into the
\* other; and extending a catalogue by itself changes nothing.
C13_PureUnion ==
    /\ pc = "merged" => UnionOf(before, other)
    /\ pc = "remerged" => items = before

\* C13, for catalogues in which entries that compare Equal are the same
\* entry
C13_UnionOfDistinct ==
    (\A i \in 1..Len(before), j \in 1..Len(other) :
        DocItemCmp(before[i], other[j]) = "Equal" => before[i] = other[j])
    => C13_PureUnion
====
